---------------------------- MODULE Spec2Model ----------------------------
(***************************************************************************)
(* A model of src/utils/utils.py: the data-preparation pipeline that turns *)
(* a directory of audio clips into labelled, uniformly shaped spectrograms.*)
(*                                                                         *)
(* Strings (paths, identifiers) are tuples of one-character strings, so    *)
(* that the fixed-position slices of the code are computed, not assumed.   *)
(* A numpy array is a record [nr, nc, a]: its shape and its rows.          *)
(***************************************************************************)
EXTENDS Integers, Sequences, FiniteSets, TLC

(***************************************************************************)
(* Bounds of the model.                                                    *)
(***************************************************************************)
\* Rows and columns of the arrays handed to FixSizeSpectrogram on its own.
MaxDim == 2
\* Length of the list handed to FixSizeSpectrogram on its own.
MaxSpecs == 2

(***************************************************************************)
(* Python and numpy primitives.                                            *)
(***************************************************************************)
Min(a, b) == IF a <= b THEN a ELSE b

Max(a, b) == IF a >= b THEN a ELSE b

\* A Python slice bound: negative counts from the end, then clamped to 0..n.
PyBound(i, n) == IF i < 0 THEN Max(n + i, 0) ELSE Min(i, n)

\* s[lo:hi] of a Python sequence (0-based, hi exclusive).
PySlice(s, lo, hi) ==
    LET n == Len(s)
        a == PyBound(lo, n)
        b == PyBound(hi, n)
    IN  IF b <= a THEN <<>> ELSE SubSeq(s, a + 1, b)

\* ndarray.shape of a 2-D array.
Shape(m) == <<m.nr, m.nc>>

\* spec[0:h, 0:w] of a 2-D array: the basic slice of both axes.
Crop(m, h, w) ==
    LET r == Len(PySlice([i \in 1..m.nr |-> i], 0, h))
        c == Len(PySlice([j \in 1..m.nc |-> j], 0, w))
    IN  [nr |-> r, nc |-> c,
         a  |-> [i \in 1..r |-> [j \in 1..c |-> m.a[i][j]]]]

(***************************************************************************)
(* FixSizeSpectrogram (lines 139-166).  shapes is a sequence; shapes[0]    *)
(* and shapes[1] are read inside the loop only, so a short shapes raises   *)
(* IndexError exactly when there is an array to visit.                     *)
(***************************************************************************)
FixOne_KeepsTail(spec, shapes) ==
    IF Shape(spec) # <<shapes[1], shapes[2]>>
    THEN LET r == Min(spec.nr, shapes[1])
             c == Min(spec.nc, shapes[2])
         IN  [nr |-> r, nc |-> c,
              a  |-> [i \in 1..r |->
                        [j \in 1..c |-> spec.a[spec.nr - r + i][spec.nc - c + j]]]]
    ELSE spec

FixOne(spec, shapes) ==
    IF Shape(spec) # <<shapes[1], shapes[2]>>
    THEN Crop(spec, shapes[1], shapes[2])
    ELSE spec

FixSizeSpectrogram(spectrograms, genres, shapes) ==
    IF Len(spectrograms) > 0 /\ Len(shapes) < 2
    THEN [raised |-> TRUE, spectrograms_list |-> <<>>, genres_list |-> <<>>]
    ELSE [raised |-> FALSE,
          spectrograms_list |->
              [i \in 1..Len(spectrograms) |-> FixOne(spectrograms[i], shapes)],
          genres_list |-> [i \in 1..Len(spectrograms) |-> genres[i]]]


(***************************************************************************)
(* The data set on disk.  Clip n of the data set is the file               *)
(* data/audio/<n as six digits>.mp3; the tracks table is keyed by n.       *)
(***************************************************************************)
\* Number of clips of the data set that the model draws the audio directory from.
NumTracks == 2

\* Mel bands of a spectrogram (librosa's n_mels, 128 by default), scaled down.
NMels == 2

\* The artifact count LoadDataPipeline tests for (7994 in the source, the
\* size of the audio collection), scaled down to the model's directories.
ExpectedCount == 2

\* librosa.power_to_db's top_db.
TopDb == 80

DigitChar == <<"0", "1", "2", "3", "4", "5", "6", "7", "8", "9">>

Pow10(k) == IF k = 0 THEN 1 ELSE IF k = 1 THEN 10 ELSE IF k = 2 THEN 100
            ELSE IF k = 3 THEN 1000 ELSE IF k = 4 THEN 10000 ELSE 100000

\* The six-digit, zero-padded name of clip n.
TrackIdStr(n) == [k \in 1..6 |-> DigitChar[((n \div Pow10(6 - k)) % 10) + 1]]

\* int(id_track): the number a string of decimal digits denotes, -1 where
\* Python raises ValueError.
DigitVal(ch) ==
    CASE ch = "0" -> 0 [] ch = "1" -> 1 [] ch = "2" -> 2 [] ch = "3" -> 3
      [] ch = "4" -> 4 [] ch = "5" -> 5 [] ch = "6" -> 6 [] ch = "7" -> 7
      [] ch = "8" -> 8 [] ch = "9" -> 9 [] OTHER -> -1

RECURSIVE ParseInt(_)
ParseInt(s) ==
    IF Len(s) = 0 THEN -1
    ELSE IF DigitVal(s[Len(s)]) < 0 THEN -1
    ELSE IF Len(s) = 1 THEN DigitVal(s[1])
    ELSE LET hi == ParseInt(SubSeq(s, 1, Len(s) - 1))
         IN  IF hi < 0 THEN -1 ELSE 10 * hi + DigitVal(s[Len(s)])

\* str(Path("./data/audio")) + "/" and str(Path("./data/Spectrograms")) + "/".
AudioPrefix == <<"d", "a", "t", "a", "/", "a", "u", "d", "i", "o", "/">>

SpecPrefix == <<"d", "a", "t", "a", "/", "S", "p", "e", "c", "t", "r", "o",
                "g", "r", "a", "m", "s", "/">>

Mp3Ext == <<".", "m", "p", "3">>

PtExt == <<".", "p", "t">>

\* A directory entry of data/audio: its path, whether it is a regular file,
\* and the clip it holds (0 for a sub-directory).
AudioFile(n) == [path |-> AudioPrefix \o TrackIdStr(n) \o Mp3Ext,
                 is_file |-> TRUE, clip |-> n]

SubDirectory == [path |-> AudioPrefix \o <<"e", "x", "t", "r", "a", "s">>,
                 is_file |-> FALSE, clip |-> 0]

\* str(save_path)+"/"+id_track+".pt"
ArtifactPath(id_track) == SpecPrefix \o id_track \o PtExt

\* list(path.iterdir()): the entries in some order.
RECURSIVE Listings(_)
Listings(S) ==
    IF S = {} THEN {<<>>}
    ELSE UNION {{<<x>> \o rest : rest \in Listings(S \ {x})} : x \in S}

(***************************************************************************)
(* The genre vocabulary (lines 230-231) and the tracks table.              *)
(***************************************************************************)
genre_dict ==
    ("Electronic" :> 0) @@ ("Experimental" :> 1) @@ ("Folk" :> 2) @@
    ("Hip-Hop" :> 3) @@ ("Instrumental" :> 4) @@ ("International" :> 5) @@
    ("Pop" :> 6) @@ ("Rock" :> 7)

\* A genre_top of tracks.csv that the dictionary does not hold.
UnknownGenre == "Blues"

(***************************************************************************)
(* GetGenres (lines 36-43).  tracks is the table as a function from        *)
(* track_id to genre_top; a row that is missing is a missing argument.     *)
(***************************************************************************)
\* id_track = str(direc)[-10:-4]
AudioIdTrack(path) == PySlice(path, -10, -4)

\* dict_genre[tracks.loc[tracks.track_id == int(id_track),'genre_top'].values[0]]:
\* the code of the genre, or -1 where the code raises (ValueError, IndexError
\* on no row, KeyError on a genre outside the dictionary).
LookupGenre_Default(id_track, dict_genre, tracks) ==
    LET key == ParseInt(id_track)
    IN  IF key < 0 \/ key \notin DOMAIN tracks THEN -1
        ELSE IF tracks[key] \notin DOMAIN dict_genre THEN 0
        ELSE dict_genre[tracks[key]]

LookupGenre(id_track, dict_genre, tracks) ==
    LET key == ParseInt(id_track)
    IN  IF key < 0 \/ key \notin DOMAIN tracks THEN -1
        ELSE IF tracks[key] \notin DOMAIN dict_genre THEN -1
        ELSE dict_genre[tracks[key]]

RECURSIVE GetGenresFrom(_, _, _, _, _, _)
GetGenresFrom(listing, k, dict_genre, tracks, id_list, genre_list) ==
    IF k > Len(listing)
    THEN [raised |-> FALSE, id_list |-> id_list, genre_list |-> genre_list]
    ELSE IF ~listing[k].is_file
    THEN GetGenresFrom(listing, k + 1, dict_genre, tracks, id_list, genre_list)
    ELSE LET id_track == AudioIdTrack(listing[k].path)
             code == LookupGenre(id_track, dict_genre, tracks)
         IN  IF code < 0
             THEN [raised |-> TRUE, id_list |-> <<>>, genre_list |-> <<>>]
             ELSE GetGenresFrom(listing, k + 1, dict_genre, tracks,
                                Append(id_list, id_track),
                                Append(genre_list, code))

GetGenres(listing, dict_genre, tracks) ==
    GetGenresFrom(listing, 1, dict_genre, tracks, <<>>, <<>>)

(***************************************************************************)
(* CreateSpectrograms (lines 58-68).  fails is the set of entries on which *)
(* decoding, computing or saving raises in this call.                      *)
(***************************************************************************)
\* The clip's length in frames: clip n is n frames long.
Frames(n) == n

\* A power value of the clip's Mel spectrogram, a power of ten.
Power(n, r, c) == Pow10((n + r + c) % 3)

\* librosa.feature.melspectrogram of the decoded clip: NMels x Frames(clip).
MelSpectrogram(n) ==
    [nr |-> NMels, nc |-> Frames(n),
     a  |-> [r \in 1..NMels |-> [c \in 1..Frames(n) |-> Power(n, r, c)]]]

\* One iteration of the loop: acc holds the directory and the paths saved
\* so far; an entry in fails raises inside the try and is passed over.
ExtractOne(acc, file, fails) ==
    LET id_track == AudioIdTrack(file.path)
    IN  IF file \in fails THEN acc
        ELSE [dir   |-> (ArtifactPath(id_track) :> MelSpectrogram(file.clip))
                            @@ acc.dir,
              wrote |-> acc.wrote \cup {ArtifactPath(id_track)}]

\* The loop without its try/except: the first error leaves the function.
RECURSIVE CreateSpectrogramsFrom_Aborts(_, _, _, _)
CreateSpectrogramsFrom_Aborts(listing, k, fails, acc) ==
    IF k > Len(listing)
    THEN [raised |-> FALSE, dir |-> acc.dir, wrote |-> acc.wrote,
          visited |-> {listing[i] : i \in 1..Len(listing)}]
    ELSE IF listing[k] \in fails
    THEN [raised |-> TRUE, dir |-> acc.dir, wrote |-> acc.wrote,
          visited |-> {listing[i] : i \in 1..k}]
    ELSE CreateSpectrogramsFrom_Aborts(listing, k + 1, fails,
                                       ExtractOne(acc, listing[k], fails))

RECURSIVE CreateSpectrogramsFrom(_, _, _, _)
CreateSpectrogramsFrom(listing, k, fails, acc) ==
    IF k > Len(listing)
    THEN [raised |-> FALSE, dir |-> acc.dir, wrote |-> acc.wrote,
          visited |-> {listing[i] : i \in 1..Len(listing)}]
    ELSE CreateSpectrogramsFrom(listing, k + 1, fails,
                                ExtractOne(acc, listing[k], fails))

CreateSpectrograms(listing, fails, dir) ==
    CreateSpectrogramsFrom(listing, 1, fails, [dir |-> dir, wrote |-> {}])

(***************************************************************************)
(* ChargeDataset (lines 84-94).                                            *)
(***************************************************************************)
\* id_track = str(spec)[18:-3]
ArtifactIdTrack(path) == PySlice(path, 18, -3)

\* 10 * log10 of a power of ten.
Db(v) == IF v = 1 THEN 0 ELSE IF v = 10 THEN 10 ELSE 20

RECURSIVE SetMax(_)
SetMax(S) ==
    LET x == CHOOSE y \in S : TRUE
    IN  IF S = {x} THEN x ELSE Max(x, SetMax(S \ {x}))

\* librosa.power_to_db(spec): decibels, floored at the peak minus top_db.
PowerToDb(m) ==
    LET peak == SetMax({Db(m.a[i][j]) : i \in 1..m.nr, j \in 1..m.nc})
    IN  [nr |-> m.nr, nc |-> m.nc,
         a  |-> [i \in 1..m.nr |->
                   [j \in 1..m.nc |-> Max(Db(m.a[i][j]), peak - TopDb)]]]

\* np.argwhere(id_list == id_track): the positions that hold id_track.
ArgWhere(id_list, id_track) ==
    {k \in 1..Len(id_list) : id_list[k] = id_track}

RECURSIVE SetMin(_)
SetMin(S) ==
    LET x == CHOOSE y \in S : TRUE
    IN  IF S = {x} THEN x ELSE Min(x, SetMin(S \ {x}))

\* The label of the i-th listed artifact, by position instead of by identifier.
LabelOf_ByPosition(i, id_track, id_list, genre_list) ==
    IF ArgWhere(id_list, id_track) = {} THEN -1
    ELSE genre_list[i]

\* genre_list[np.argwhere(id_list == id_track)][0][0], -1 on IndexError.
LabelOf(i, id_track, id_list, genre_list) ==
    IF ArgWhere(id_list, id_track) = {} THEN -1
    ELSE genre_list[SetMin(ArgWhere(id_list, id_track))]

RECURSIVE ChargeDatasetFrom(_, _, _, _, _, _, _)
ChargeDatasetFrom(listing, i, dir, id_list, genre_list, images, labels) ==
    IF i > Len(listing)
    THEN [raised |-> FALSE, images |-> images, labels |-> labels]
    ELSE LET id_track == ArtifactIdTrack(listing[i])
             label == LabelOf(i, id_track, id_list, genre_list)
         IN  IF label < 0
             THEN [raised |-> TRUE, images |-> <<>>, labels |-> <<>>]
             ELSE ChargeDatasetFrom(listing, i + 1, dir, id_list, genre_list,
                                    Append(images, PowerToDb(dir[listing[i]])),
                                    Append(labels, label))

\* The loop started at the second entry of the listing.
ChargeDataset_SkipsFirst(listing, dir, id_list, genre_list) ==
    ChargeDatasetFrom(listing, 2, dir, id_list, genre_list, <<>>, <<>>)

ChargeDataset(listing, dir, id_list, genre_list) ==
    ChargeDatasetFrom(listing, 1, dir, id_list, genre_list, <<>>, <<>>)

(***************************************************************************)
(* The shapes of LoadDataPipeline (lines 242-245).                         *)
(***************************************************************************)
RECURSIVE SortedSeq(_)
SortedSeq(S) ==
    IF S = {} THEN <<>>
    ELSE <<SetMin(S)>> \o SortedSeq(S \ {SetMin(S)})

\* np.unique(shape): the distinct numbers of the flattened list of shapes,
\* in ascending order.
NpUniqueShapes(spectrograms) ==
    SortedSeq({spectrograms[i].nr : i \in 1..Len(spectrograms)} \cup
              {spectrograms[i].nc : i \in 1..Len(spectrograms)})

(***************************************************************************)
(* spec_augment (lines 272-292) and DataSpecAugmentation (lines 255-268).  *)
(***************************************************************************)
\* Rows and columns of the array handed to spec_augment on its own.
MaskRows == 5
MaskCols == 7
\* Rows and columns of the training arrays, and the longest training list.
TrainRows == 5
TrainCols == 2
MaxTrain == 2

num_mask == 2

\* freq_masking_max_percentage and time_masking_max_percentage, in percent.
freq_masking_max_percentage == 15

time_masking_max_percentage == 25

\* int(pct * n) for pct = random.uniform(0.0, p): pct ranges over [0, p), so
\* the widths are the w with w = 0 or w < p * n.
MaskWidths(percentage, n) ==
    {w \in 0..n : w = 0 \/ w * 100 < percentage * n}

\* int(np.random.uniform(low=0.0, high=h)): the draw ranges over [0, h).
MaskStarts(h) == IF h <= 0 THEN {0} ELSE 0..(h - 1)

\* The draws of one round on an array of the given shape: the two widths
\* and, for each, the start of the band.
RoundDraws(m) ==
    LET all_frames_num == m.nr
        all_freqs_num == m.nc
    IN  UNION {
          {[nf |-> nf, f0 |-> f0, nt |-> nt, t0 |-> t0] :
              f0 \in MaskStarts(all_freqs_num - nf),
              t0 \in MaskStarts(all_frames_num - nt)} :
          nf \in MaskWidths(freq_masking_max_percentage, all_freqs_num),
          nt \in MaskWidths(time_masking_max_percentage, all_frames_num)}

\* One round: spec[:, f0:f0+num_freqs_to_mask] = 0, then
\* spec[t0:t0+num_frames_to_mask, :] = 0.
MaskRound(m, d) ==
    [nr |-> m.nr, nc |-> m.nc,
     a  |-> [i \in 1..m.nr |-> [j \in 1..m.nc |->
               IF \/ (d.f0 < j /\ j <= d.f0 + d.nf)
                  \/ (d.t0 < i /\ i <= d.t0 + d.nt)
               THEN 0 ELSE m.a[i][j]]]]

\* The arrays that the remaining rounds can make of m.  The shape, and with
\* it the set of draws, is the same in every round.
RECURSIVE AugmentRounds(_, _)
AugmentRounds(ms, rounds) ==
    IF rounds = 0 THEN ms
    ELSE AugmentRounds(UNION {{MaskRound(m, d) : d \in RoundDraws(m)} : m \in ms},
                       rounds - 1)

\* spec_augment(spec): the arrays it can return.  The argument is copied
\* first, so it is never changed itself.
spec_augment(spec) == AugmentRounds({spec}, num_mask)

\* The loop of DataSpecAugmentation from element i on: the (new_spec,
\* genre_augment) pairs it can end with.
RECURSIVE AugmentLoop(_, _, _, _, _)
AugmentLoop(spec_list, genres_list, i, new_spec, genre_augment) ==
    IF i > Len(spec_list)
    THEN {[new_spec |-> new_spec, genre_augment |-> genre_augment]}
    ELSE UNION {AugmentLoop(spec_list, genres_list, i + 1,
                            Append(new_spec, spec),
                            Append(genre_augment, genres_list[i])) :
                spec \in spec_augment(spec_list[i])}

\* spec_augment without its copy: the masks land in the list's own arrays.
DataSpecAugmentation_InPlace(spec_list, genres_list) ==
    {[spec_list   |-> r.new_spec \o r.new_spec,
      genres_list |-> genres_list \o r.genre_augment] :
        r \in AugmentLoop(spec_list, genres_list, 1, <<>>, <<>>)}

\* DataSpecAugmentation(spec_list, genres_list): the two lists after the
\* call, which extends both in place.
DataSpecAugmentation(spec_list, genres_list) ==
    {[spec_list   |-> spec_list \o r.new_spec,
      genres_list |-> genres_list \o r.genre_augment] :
        r \in AugmentLoop(spec_list, genres_list, 1, <<>>, <<>>)}

(***************************************************************************)
(* State.                                                                  *)
(***************************************************************************)
VARIABLES
    \* the disk and the tracks table
    audioDir, tracks, specDir,
    \* a run of LoadDataPipeline: where it is and its locals
    pc, id_list, genre_list, spectrograms, genres, shapes,
    spectrograms_list, genres_list,
    \* what the run has done so far: the directory count at its start, the
    \* last call of CreateSpectrograms, the listing ChargeDataset read
    startCount, extraction, loadListing,
    \* a call of FixSizeSpectrogram, of spec_augment or of
    \* DataSpecAugmentation on its own: its arguments and what it returned
    call, ret

diskVars == <<audioDir, tracks, specDir>>

runVars == <<pc, id_list, genre_list, spectrograms, genres, shapes,
             spectrograms_list, genres_list, startCount, extraction,
             loadListing>>

callVars == <<call, ret>>

vars == <<diskVars, runVars, callVars>>

NoExtraction == [invoked |-> FALSE, raised |-> FALSE, visited |-> {},
                 fails |-> {}, wrote |-> {}]

NoCall == [fn |-> "none"]

RunIdle ==
    /\ pc = "idle"
    /\ id_list = <<>> /\ genre_list = <<>>
    /\ spectrograms = <<>> /\ genres = <<>> /\ shapes = <<>>
    /\ spectrograms_list = <<>> /\ genres_list = <<>>
    /\ startCount = 0 /\ extraction = NoExtraction /\ loadListing = <<>>

DiskIdle == audioDir = {} /\ tracks = <<>> /\ specDir = <<>>

(***************************************************************************)
(* The pipeline: LoadDataPipeline (lines 228-252), a call at a time.       *)
(***************************************************************************)
\* The genre_top of clip n in the tracks table of the data set.
GenreTopOf(n) ==
    IF n % 4 = 1 THEN "Pop" ELSE IF n % 4 = 2 THEN "Rock"
    ELSE IF n % 4 = 3 THEN "Folk" ELSE "Hip-Hop"

\* The tables the pipeline is run against: a clip's row is there with its
\* genre, there with a genre outside the vocabulary, or missing.
PipelineTables ==
    UNION {[present -> {"known", "unknown"}] : present \in SUBSET (1..NumTracks)}

TableOf(t) ==
    [n \in DOMAIN t |-> IF t[n] = "known" THEN GenreTopOf(n) ELSE UnknownGenre]

\* An artifact left in data/Spectrograms by a clip that is no longer in
\* data/audio.
StaleArtifact ==
    ArtifactPath(TrackIdStr(NumTracks + 1)) :> MelSpectrogram(NumTracks + 1)

InitPipeline ==
    /\ audioDir \in {files \cup extra :
            files \in SUBSET {AudioFile(n) : n \in 1..NumTracks},
            extra \in {{}, {SubDirectory}}}
    /\ tracks \in {TableOf(t) : t \in PipelineTables}
    /\ specDir \in {<<>>, StaleArtifact}
    /\ RunIdle
    /\ call = NoCall /\ ret = NoCall

\* Lines 233-234, the start of a run: id_list, genre_list = GetGenres(...).
Resolve ==
    /\ pc \in {"idle", "done", "raised"}
    /\ \E listing \in Listings(audioDir) :
         LET r == GetGenres(listing, genre_dict, tracks)
         IN  /\ pc' = IF r.raised THEN "raised" ELSE "resolved"
             /\ id_list' = r.id_list
             /\ genre_list' = r.genre_list
    /\ startCount' = Cardinality(DOMAIN specDir)
    /\ spectrograms' = <<>> /\ genres' = <<>> /\ shapes' = <<>>
    /\ spectrograms_list' = <<>> /\ genres_list' = <<>>
    /\ extraction' = NoExtraction /\ loadListing' = <<>>
    /\ UNCHANGED <<diskVars, callVars>>

\* The entries on which librosa.load raises whatever else happens.
Undecodable == {e \in audioDir : ~e.is_file}

\* The guard read as "not yet fully populated".
ShouldExtract_Below(count) == count < ExpectedCount

\* Line 236: len(list(save_path.iterdir())) != 7994.
ShouldExtract(count) == count # ExpectedCount

\* Lines 235-237: CreateSpectrograms unless the directory holds the count.
Extract ==
    /\ pc = "resolved"
    /\ IF ShouldExtract(Cardinality(DOMAIN specDir))
       THEN \E listing \in Listings(audioDir), fails \in SUBSET audioDir :
              /\ Undecodable \subseteq fails
              /\ LET r == CreateSpectrograms(listing, fails, specDir)
                 IN  /\ specDir' = r.dir
                     /\ extraction' = [invoked |-> TRUE, raised |-> r.raised,
                                       visited |-> r.visited, fails |-> fails,
                                       wrote |-> r.wrote]
                     /\ pc' = IF r.raised THEN "raised" ELSE "extracted"
       ELSE /\ pc' = "extracted"
            /\ UNCHANGED <<specDir, extraction>>
    /\ UNCHANGED <<audioDir, tracks, id_list, genre_list, spectrograms, genres,
                   shapes, spectrograms_list, genres_list, startCount,
                   loadListing, callVars>>

\* Line 239: spectrograms, genres = ChargeDataset(save_path, id_list, genre_list).
Load ==
    /\ pc = "extracted"
    /\ \E listing \in Listings(DOMAIN specDir) :
         LET r == ChargeDataset(listing, specDir, id_list, genre_list)
         IN  /\ pc' = IF r.raised THEN "raised" ELSE "loaded"
             /\ spectrograms' = r.images
             /\ genres' = r.labels
             /\ loadListing' = listing
    /\ UNCHANGED <<diskVars, id_list, genre_list, shapes, spectrograms_list,
                   genres_list, startCount, extraction, callVars>>

\* Lines 242-252: the shapes, then FixSizeSpectrogram.
Normalize ==
    /\ pc = "loaded"
    /\ shapes' = NpUniqueShapes(spectrograms)
    /\ LET r == FixSizeSpectrogram(spectrograms, genres, shapes')
       IN  /\ pc' = IF r.raised THEN "raised" ELSE "done"
           /\ spectrograms_list' = r.spectrograms_list
           /\ genres_list' = r.genres_list
    /\ UNCHANGED <<diskVars, id_list, genre_list, spectrograms, genres,
                   startCount, extraction, loadListing, callVars>>

NextPipeline == Resolve \/ Extract \/ Load \/ Normalize

SpecPipeline == InitPipeline /\ [][NextPipeline]_vars

(***************************************************************************)
(* GetGenres on its own, against every tracks table over the vocabulary.   *)
(***************************************************************************)
GenreTops == DOMAIN genre_dict \cup {UnknownGenre}

InitResolver ==
    /\ audioDir \in {files \cup extra :
            files \in SUBSET {AudioFile(n) : n \in 1..NumTracks},
            extra \in {{}, {SubDirectory}}}
    /\ tracks \in UNION {[present -> GenreTops] :
                            present \in SUBSET (1..NumTracks)}
    /\ specDir = <<>>
    /\ RunIdle
    /\ call = NoCall /\ ret = NoCall

SpecResolver == InitResolver /\ [][Resolve]_vars

(***************************************************************************)
(* FixSizeSpectrogram on its own.                                          *)
(***************************************************************************)
\* An nr x nc array whose values tell their position and the array apart.
SampleArray(nr, nc, seed) ==
    [nr |-> nr, nc |-> nc,
     a  |-> [i \in 1..nr |-> [j \in 1..nc |-> 100 * seed + 10 * i + j]]]

FixArrays ==
    {SampleArray(nr, nc, nr * (MaxDim + 1) + nc) : nr \in 1..MaxDim, nc \in 1..MaxDim}

FixLabels == {genre_dict["Pop"], genre_dict["Rock"]}

InitFix ==
    /\ DiskIdle /\ RunIdle
    /\ \E n \in 0..MaxSpecs :
         call \in [fn : {"FixSizeSpectrogram"},
                   spectrograms : [1..n -> FixArrays],
                   genres : [1..n -> FixLabels],
                   shapes : (1..(MaxDim + 1)) \X (1..(MaxDim + 1))]
    /\ ret = NoCall

FixSizeSpectrogramCall ==
    /\ call.fn = "FixSizeSpectrogram" /\ ret = NoCall
    /\ LET r == FixSizeSpectrogram(call.spectrograms, call.genres, call.shapes)
       IN  ret' = [fn |-> "FixSizeSpectrogram", raised |-> r.raised,
                   spectrograms_list |-> r.spectrograms_list,
                   genres_list |-> r.genres_list]
    /\ UNCHANGED <<diskVars, runVars, call>>

SpecFix == InitFix /\ [][FixSizeSpectrogramCall]_vars

(***************************************************************************)
(* spec_augment on its own, on spectrograms as the pipeline lays them out: *)
(* axis 0 the frequency bins, axis 1 the time frames.                      *)
(***************************************************************************)
InitMask ==
    /\ DiskIdle /\ RunIdle
    /\ call \in {[fn |-> "spec_augment", spec |-> SampleArray(nr, nc, 1)] :
                    nr \in 1..MaskRows, nc \in 1..MaskCols}
    /\ ret = NoCall

SpecAugmentCall ==
    /\ call.fn = "spec_augment" /\ ret = NoCall
    /\ \E out \in spec_augment(call.spec) :
         ret' = [fn |-> "spec_augment", spec |-> out]
    /\ UNCHANGED <<diskVars, runVars, call>>

SpecMask == InitMask /\ [][SpecAugmentCall]_vars

(***************************************************************************)
(* DataSpecAugmentation on its own, as CreateTrainTestLoaders calls it     *)
(* (lines 207-208) on the training lists.                                  *)
(***************************************************************************)
\* The training examples the lists are drawn from: two arrays, two labels,
\* and one array under both labels.
TrainExamples ==
    {[spec |-> SampleArray(TrainRows, TrainCols, 1), genre |-> genre_dict["Pop"]],
     [spec |-> SampleArray(TrainRows, TrainCols, 2), genre |-> genre_dict["Rock"]],
     [spec |-> SampleArray(TrainRows, TrainCols, 1), genre |-> genre_dict["Rock"]]}

InitAugment ==
    /\ DiskIdle /\ RunIdle
    /\ \E n \in 0..MaxTrain : \E train \in [1..n -> TrainExamples] :
         call = [fn |-> "DataSpecAugmentation",
                 spec_list |-> [i \in 1..n |-> train[i].spec],
                 genres_list |-> [i \in 1..n |-> train[i].genre]]
    /\ ret = NoCall

\* ret holds the two lists as the call leaves them.
DataSpecAugmentationCall ==
    /\ call.fn = "DataSpecAugmentation" /\ ret = NoCall
    /\ \E r \in DataSpecAugmentation(call.spec_list, call.genres_list) :
         ret' = [fn |-> "DataSpecAugmentation", spec_list |-> r.spec_list,
                 genres_list |-> r.genres_list]
    /\ UNCHANGED <<diskVars, runVars, call>>

SpecAugment == InitAugment /\ [][DataSpecAugmentationCall]_vars

(***************************************************************************)
(* The claims.                                                             *)
(***************************************************************************)
FixReturned == ret.fn = "FixSizeSpectrogram" /\ ~ret.raised

\* C1 (as stated): after FixSizeSpectrogram returns, every array of the
\* returned list has shape exactly (shapes[0], shapes[1]), whatever the
\* input arrays and the target shape.
C1_EveryOutputHasTargetShape ==
    FixReturned =>
        \A i \in 1..Len(ret.spectrograms_list) :
            Shape(ret.spectrograms_list[i]) = call.shapes

\* C2: FixSizeSpectrogram keeps length, order and labels, and output array i
\* is input array i restricted to its first shapes[0] rows and first
\* shapes[1] columns: it has min(rows, shapes[0]) rows and min(columns,
\* shapes[1]) columns, each cell equal to the input's cell at that position.
C2_PrefixAndOrderPreserving ==
    ret.fn = "FixSizeSpectrogram" =>
        /\ ~ret.raised
        /\ Len(ret.spectrograms_list) = Len(call.spectrograms)
        /\ Len(ret.genres_list) = Len(call.genres)
        /\ \A i \in 1..Len(call.spectrograms) :
             LET in == call.spectrograms[i]
                 out == ret.spectrograms_list[i]
             IN  /\ ret.genres_list[i] = call.genres[i]
                 /\ out.nr = Min(in.nr, call.shapes[1])
                 /\ out.nc = Min(in.nc, call.shapes[2])
                 /\ DOMAIN out.a = 1..out.nr
                 /\ \A r \in 1..out.nr :
                      /\ DOMAIN out.a[r] = 1..out.nc
                      /\ \A c \in 1..out.nc : out.a[r][c] = in.a[r][c]

\* C2's case: two arrays of different shapes went in and one was cropped.
C2_Witness ==
    /\ FixReturned
    /\ Len(call.spectrograms) = 2
    /\ call.spectrograms[1] # call.spectrograms[2]
    /\ call.genres[1] # call.genres[2]
    /\ Shape(ret.spectrograms_list[1]) # Shape(call.spectrograms[1])
    /\ ret.spectrograms_list[1].nr > 0 /\ ret.spectrograms_list[1].nc > 0

\* v is src with some whole rows and whole columns set to zero.
IsMaskedVariant(v, src) ==
    /\ Shape(v) = Shape(src)
    /\ \A i \in 1..src.nr : \A j \in 1..src.nc :
         \/ v.a[i][j] = src.a[i][j]
         \/ /\ v.a[i][j] = 0
            /\ \/ \A jj \in 1..src.nc : v.a[i][jj] = 0
               \/ \A ii \in 1..src.nr : v.a[ii][j] = 0

\* C3: DataSpecAugmentation on n spectrograms and n labels leaves both lists
\* with 2n entries; the first n are the originals unchanged, entry n+i is a
\* masked variant of original i, and label n+i is label i.
C3_AugmentationDoubles ==
    ret.fn = "DataSpecAugmentation" =>
        LET n == Len(call.spec_list)
        IN  /\ Len(ret.spec_list) = 2 * n
            /\ Len(ret.genres_list) = 2 * n
            /\ \A i \in 1..n :
                 /\ ret.spec_list[i] = call.spec_list[i]
                 /\ ret.genres_list[i] = call.genres_list[i]
                 /\ ret.genres_list[n + i] = call.genres_list[i]
                 /\ IsMaskedVariant(ret.spec_list[n + i], call.spec_list[i])

\* C3's case: two different originals with different labels, and a mask
\* landed in the variant of the first.
C3_Witness ==
    /\ ret.fn = "DataSpecAugmentation"
    /\ Len(call.spec_list) = 2
    /\ call.spec_list[1] # call.spec_list[2]
    /\ call.genres_list[1] # call.genres_list[2]
    /\ ret.spec_list[3] # call.spec_list[1]

\* The bands of an axis of n positions, each at most percentage % of n wide.
Bands(n, percentage) ==
    {b \in [lo : 0..n, w : 0..n] :
        /\ b.w * 100 <= percentage * n
        /\ b.lo + b.w <= n
        /\ (b.w = 0 => b.lo = 0)}

InBand(x, b) == b.lo < x /\ x <= b.lo + b.w

\* C4 (as stated): on a (frequency bins x time frames) spectrogram,
\* spec_augment's result differs from its source only inside at most
\* num_mask bands of frequency bins, each at most 15% of the bins wide, and
\* at most num_mask bands of time frames, each at most 25% of the frames
\* wide; inside a band every value is zero, outside all bands every value is
\* the source's, and every band lies within the array.
C4_BandsWithinPercentages ==
    ret.fn = "spec_augment" =>
        LET src == call.spec
            out == ret.spec
            bins == src.nr
            frames == src.nc
        IN  /\ Shape(out) = Shape(src)
            /\ \E fb \in [1..num_mask -> Bands(bins, 15)],
                  tb \in [1..num_mask -> Bands(frames, 25)] :
                 \A i \in 1..bins : \A j \in 1..frames :
                    IF \/ \E k \in 1..num_mask : InBand(i, fb[k])
                       \/ \E k \in 1..num_mask : InBand(j, tb[k])
                    THEN out.a[i][j] = 0
                    ELSE out.a[i][j] = src.a[i][j]

\* The run has come back from ChargeDataset with its two sequences.
Loaded == pc \in {"loaded", "done"}

\* The positions of the Loader's output that hold identifier id_track.
EntriesOf(id_track) ==
    {i \in 1..Len(loadListing) : ArtifactIdTrack(loadListing[i]) = id_track}

\* The files CreateSpectrograms processed without error in this run.
Processed ==
    IF extraction.invoked THEN audioDir \ extraction.fails ELSE {}

\* C5 (as stated): after extraction and loading, the Loader's output holds
\* an entry for every identifier the Resolver produced, one pair per
\* resolved identifier.
C5_EveryResolvedIdLoaded ==
    (Loaded /\ extraction.invoked) =>
        /\ \A k \in 1..Len(id_list) : EntriesOf(id_list[k]) # {}
        /\ Len(spectrograms) = Len(id_list)

\* C5 (amended): after loading, the Loader's output holds exactly one entry
\* for every resolved identifier whose file CreateSpectrograms processed
\* without error, none for a resolved identifier that has no artifact, and
\* one (spectrogram, label) pair per artifact in the destination directory.
C5_EveryProcessedIdLoaded ==
    Loaded =>
        /\ \A e \in Processed :
             /\ \E k \in 1..Len(id_list) : id_list[k] = TrackIdStr(e.clip)
             /\ Cardinality(EntriesOf(TrackIdStr(e.clip))) = 1
        /\ \A k \in 1..Len(id_list) :
             ArtifactPath(id_list[k]) \notin DOMAIN specDir =>
                 EntriesOf(id_list[k]) = {}
        /\ Len(spectrograms) = Cardinality(DOMAIN specDir)
        /\ Len(genres) = Cardinality(DOMAIN specDir)

\* C5's case: extraction ran, one file failed and another was processed,
\* and the run loaded the directory.
C5_Witness ==
    /\ pc = "done"
    /\ extraction.invoked
    /\ \E e \in extraction.fails : e.is_file
    /\ Processed # {}
    /\ Len(spectrograms) < Len(id_list)

\* C6: CreateSpectrograms never raises and visits every entry of the source
\* directory whatever fails; the artifacts it wrote are one per entry that
\* was processed without error, each named by that file's identifier and
\* holding that clip's spectrogram, and none for an entry that failed.
C6_BestEffortExtraction ==
    extraction.invoked =>
        /\ ~extraction.raised
        /\ extraction.visited = audioDir
        /\ extraction.wrote =
              {ArtifactPath(TrackIdStr(e.clip)) : e \in audioDir \ extraction.fails}
        /\ Cardinality(extraction.wrote) =
              Cardinality(audioDir \ extraction.fails)
        /\ \A e \in extraction.fails :
              ArtifactPath(AudioIdTrack(e.path)) \notin extraction.wrote
        /\ \A e \in audioDir \ extraction.fails :
              /\ ArtifactPath(TrackIdStr(e.clip)) \in DOMAIN specDir
              /\ specDir[ArtifactPath(TrackIdStr(e.clip))] = MelSpectrogram(e.clip)

\* C6's case: a file failed, another was written, and the run went on.
C6_Witness ==
    /\ extraction.invoked
    /\ pc = "extracted"
    /\ \E e \in extraction.fails : e.is_file
    /\ extraction.wrote # {}

\* The run is past the test of line 236.
PastExtraction == pc \in {"extracted", "loaded", "done"} \/ loadListing # <<>>

\* C7: in every run of a sequence of runs, extraction is skipped (no call of
\* CreateSpectrograms, nothing written) if the destination directory holds
\* the expected count when the run starts; otherwise CreateSpectrograms has
\* run over the whole source directory before anything is loaded.
C7_ExtractionGuard ==
    /\ startCount = ExpectedCount =>
          (~extraction.invoked /\ extraction.wrote = {})
    /\ (startCount # ExpectedCount /\ PastExtraction) =>
          (extraction.invoked /\ extraction.visited = audioDir)

\* C7's case: a later run found the directory at the expected count, skipped
\* extraction and completed.
C7_Witness ==
    /\ pc = "done"
    /\ startCount = ExpectedCount
    /\ ~extraction.invoked
    /\ Len(spectrograms) = ExpectedCount

\* The files of the audio directory that GetGenres cannot resolve.
Unresolvable ==
    {e \in audioDir :
        /\ e.is_file
        /\ \/ e.clip \notin DOMAIN tracks
           \/ tracks[e.clip] \notin DOMAIN genre_dict}

\* C8: the dictionary maps the 8 genre strings one-to-one onto 0..7, and
\* GetGenres raises, returning no sequences, exactly when some file's
\* identifier has no row in the tracks table or a genre outside the
\* dictionary; when it returns, every label is the dictionary's code of the
\* file's genre, never a default.
C8_GenreEncoding ==
    /\ Cardinality(DOMAIN genre_dict) = 8
    /\ {genre_dict[g] : g \in DOMAIN genre_dict} = 0..7
    /\ \A g, h \in DOMAIN genre_dict : genre_dict[g] = genre_dict[h] => g = h
    /\ pc = "raised" <=> (pc # "idle" /\ Unresolvable # {})
    /\ pc = "raised" => (id_list = <<>> /\ genre_list = <<>>)
    /\ pc = "resolved" =>
          /\ Len(id_list) = Cardinality({e \in audioDir : e.is_file})
          /\ Len(genre_list) = Len(id_list)
          /\ \A e \in audioDir : e.is_file =>
                \E k \in 1..Len(id_list) :
                    /\ id_list[k] = TrackIdStr(e.clip)
                    /\ genre_list[k] = genre_dict[tracks[e.clip]]

\* C8's case: every file has its row, one row has a genre outside the
\* dictionary, and GetGenres raised.
C8_Witness ==
    /\ pc = "raised"
    /\ \A e \in audioDir : e.is_file => e.clip \in DOMAIN tracks
    /\ \E e \in audioDir : e.is_file /\ tracks[e.clip] = UnknownGenre

\* C9: the Loader's two sequences have one entry per artifact, and the label
\* at an index is the code the Resolver recorded for the identifier of the
\* artifact whose spectrogram is at that index, whatever the two listing
\* orders.
C9_PairedByIdentifier ==
    Loaded =>
        /\ Len(spectrograms) = Cardinality(DOMAIN specDir)
        /\ Len(genres) = Len(spectrograms)
        /\ \A i \in 1..Len(spectrograms) :
             \E n \in 1..NumTracks :
                /\ loadListing[i] = ArtifactPath(TrackIdStr(n))
                /\ spectrograms[i] = PowerToDb(MelSpectrogram(n))
                /\ genres[i] = genre_dict[tracks[n]]
                /\ \E k \in 1..Len(id_list) :
                      id_list[k] = TrackIdStr(n) /\ genre_list[k] = genres[i]
        /\ \A p \in DOMAIN specDir : \E i \in 1..Len(loadListing) : loadListing[i] = p

\* C9's case: the spectrogram directory was listed in another order than
\* the audio directory, and the labels differ.
C9_Witness ==
    /\ pc = "done"
    /\ Len(spectrograms) = 2
    /\ ArtifactIdTrack(loadListing[1]) = id_list[2]
    /\ genres[1] # genres[2]

\* The smallest frame count among the loaded spectrograms.
MinFrames == SetMin({spectrograms[i].nc : i \in 1..Len(spectrograms)})

\* C10 (as stated): for a non-empty set of loaded spectrograms with one
\* frequency-bin count, the target shape LoadDataPipeline computes and
\* passes to FixSizeSpectrogram is (frequency bins, least frame count).
C10_TargetShape ==
    (Len(spectrograms) > 0 /\ pc \in {"done", "raised"} /\ loadListing # <<>>
        /\ Len(spectrograms) = Len(loadListing)) =>
        /\ Len(shapes) >= 2
        /\ shapes[1] = NMels
        /\ shapes[2] = MinFrames

=============================================================================
